---- MODULE Spec2Model ----
(***************************************************************************)
(* SplitDex: the streaming re-index pipeline of splitdex.py                *)
(* (StreamingSplitDex) together with the chunk mapper of SdCtrl.py and     *)
(* SdUtility.py.  One producer thread, numProcess() consumer threads and   *)
(* the orchestrator (action) share a bounded queue, a stop event, the      *)
(* connection handle `es` and the two run counters.                        *)
(***************************************************************************)
EXTENDS Integers, Sequences, FiniteSets, TLC

(***************************************************************************)
(* Bounds of the model.                                                    *)
(***************************************************************************)
\* cpu_count() of the machine the run is on
CpuCount == 3
\* longest source stream
MaxDocs == 3
\* largest configured batch_size
MaxBatch == 2
\* most chunks a source stream gives with the configured batch size
MaxChunks == 2
\* largest configured max_retry_connection
MaxRetry == 2
\* most documents one bulk call reports as failed
MaxBulkFailed == 1
\* last day (since the epoch) a gte/lte bound or a timestamp falls on
MaxDay == 2
\* longest chunk handed to the chunk mapper on its own
MaxMapLen == 2

\* seconds in a day: datetime(y, m, d, tzinfo=utc).timestamp()
SecPerDay == 86400

\* the attempt counter kept for the retry loop saturates here
AttemptCap == MaxRetry + 1

Min(a, b) == IF a < b THEN a ELSE b
Max(a, b) == IF a > b THEN a ELSE b

(***************************************************************************)
(* Values.  Python values that can be None, a number or a string are       *)
(* records [k, v]; None is NoneV.                                          *)
(***************************************************************************)
NoneV == [k |-> "none", v |-> 0]
IntV(n) == [k |-> "int", v |-> n]
\* a "YYYY-MM-DD" string, named by its day number since the epoch
StrV(d) == [k |-> "str", v |-> d]

\* SdUtility.numProcess: max(1, int(cpu_count() * 0.75))
numProcess == Max(1, (CpuCount * 3) \div 4)

Workers == 1..numProcess

(***************************************************************************)
(* The chunk mapper.                                                       *)
(***************************************************************************)
\* SdUtility.dateToEpoch: a date string to epoch seconds (or millis);
\* None when the argument is no string
dateToEpoch(dates, millis) ==
    IF dates.k = "str"
    THEN IF millis THEN IntV(dates.v * SecPerDay * 1000)
                   ELSE IntV(dates.v * SecPerDay)
    ELSE NoneV

\* SdController.getData: the thresholds self.gte / self.lte it leaves behind
getDataThresholds(c) ==
    IF c.usedQuery = "no"
    THEN [gte |-> NoneV, lte |-> NoneV]
    ELSE IF c.isoFormat \in {"epoch_millis", "epoch_second"}
         THEN [gte |-> dateToEpoch(c.gte, FALSE), lte |-> dateToEpoch(c.lte, FALSE)]
         ELSE [gte |-> c.gte, lte |-> c.lte]

\* Python truthiness of a config value (None is falsy, a date string truthy)
Truthy(x) == x.k # "none"

\* Python's  a >= b  /  a <= b : "raise" unless both are numbers
GeV(a, b) == IF a.k = "int" /\ b.k = "int" THEN (IF a.v >= b.v THEN "true" ELSE "false")
             ELSE "raise"
LeV(a, b) == IF a.k = "int" /\ b.k = "int" THEN (IF a.v <= b.v THEN "true" ELSE "false")
             ELSE "raise"

\* Python's  x and y  over "true"/"false"/"raise" (left to right, short circuit)
AndV(x, y) == IF x = "true" THEN y ELSE x

\* SdUtility.validateTimestampQuery: "true", "false", "none" (fell off the
\* end: neither bound supplied) or "raise" (comparison of unlike types)
validateTimestampQuery(gte, lte, timestamp, gte_threshold, lte_threshold) ==
    IF Truthy(gte) /\ Truthy(lte)
    THEN AndV(GeV(timestamp, gte_threshold), LeV(timestamp, lte_threshold))
    ELSE IF Truthy(gte) THEN GeV(timestamp, gte_threshold)
    ELSE IF Truthy(lte) THEN LeV(timestamp, lte_threshold)
    ELSE "none"

\* SdUtility.getNestedValue on the document's _source: the timestamp field,
\* None when a key of the path is missing
getNestedValue(doc) == doc.ts

\* SdUtility.timestampToDate: datetime.fromtimestamp raises on anything but a
\* number; the date is named by its day number and the pattern used
timestampToDate(timestamp, fmt) ==
    IF timestamp.k = "int"
    THEN [k |-> "date", fmt |-> fmt, day |-> timestamp.v \div SecPerDay]
    ELSE [k |-> "raise", fmt |-> fmt, day |-> 0]

\* SdUtility.templateIndex: "{index}-{date}"
templateIndex(index, date) == [base |-> index, fmt |-> date.fmt, day |-> date.day]

\* the index name / id of an action built from an empty mapping ({}.get -> None)
NoneIndex == [base |-> "None", fmt |-> "None", day |-> 0]
NoneId == 0

\* SdController.mappingData: "raise", "empty" (the {} returned for a document
\* that fails the range re-validation) or "data" (model_dump of MappingData)
mappingData(doc, c, thr) ==
    LET timestamp == getNestedValue(doc)
        date == timestampToDate(timestamp, c.formatDate)
        data == [k |-> "data", dataId |-> doc.id,
                 indexName |-> templateIndex(c.indexName, date), ts |-> doc.ts]
        empty == [k |-> "empty", dataId |-> NoneId, indexName |-> NoneIndex, ts |-> NoneV]
        raise == [k |-> "raise", dataId |-> NoneId, indexName |-> NoneIndex, ts |-> NoneV]
    IN  IF date.k = "raise" THEN raise
        ELSE IF c.usedQuery = "no" THEN data
        ELSE LET v == validateTimestampQuery(c.gte, c.lte, timestamp, thr.gte, thr.lte)
             IN  IF v = "raise" THEN raise
                 ELSE IF v = "true" THEN data
                 ELSE empty

\* StreamingSplitDex.processChunk, one document: the action appended for it,
\* none when mappingData raised.  `src` names the document the entry came from.
actionOf(doc, c, thr) ==
    LET mapped_data == mappingData(doc, c, thr)
    IN  IF mapped_data.k = "raise" THEN <<>>
        ELSE << [_index |-> mapped_data.indexName, _id |-> mapped_data.dataId,
                 _source |-> mapped_data.ts, src |-> doc.id] >>

\* a mapper that gives up on the chunk at the first document that raises
RECURSIVE processChunkAbort(_, _, _)
processChunkAbort(chunk, c, thr) ==
    IF chunk = <<>> THEN <<>>
    ELSE IF actionOf(Head(chunk), c, thr) = <<>> THEN <<>>
    ELSE actionOf(Head(chunk), c, thr) \o processChunkAbort(Tail(chunk), c, thr)

\* StreamingSplitDex.processChunk: the actions of a chunk, in chunk order
RECURSIVE processChunk(_, _, _)
processChunk(chunk, c, thr) ==
    IF chunk = <<>> THEN <<>>
    ELSE actionOf(Head(chunk), c, thr) \o processChunk(Tail(chunk), c, thr)


(***************************************************************************)
(* Configuration (SdConfig) and the source stream.                         *)
(***************************************************************************)
DateOpt == {NoneV} \cup {StrV(d) : d \in 1..MaxDay}

\* the configurations the validator lets through, within the bounds
Configs ==
    [batch : 1..MaxBatch, maxRetries : 1..MaxRetry,
     usedQuery : {"no", "yes"}, gte : DateOpt, lte : DateOpt,
     isoFormat : {"none", "epoch_second", "epoch_millis"},
     formatDate : {"YYYYmm"}, indexName : {"idx"}]

\* the configurations the pipeline is run under: a full scan
PipelineConfigs ==
    {c \in Configs :
        c.usedQuery = "no" /\ c.gte = NoneV /\ c.lte = NoneV /\ c.isoFormat = "none"}

\* ceil(m / b)
CeilDiv(m, b) == (m + b - 1) \div b

\* the i-th hit of the scan: every third one lacks the timestamp field, every
\* third one is a second past the start of day 1, the others are on day 1
SourceTs(i) ==
    IF i % 3 = 2 THEN NoneV
    ELSE IF i % 3 = 0 THEN IntV(SecPerDay + 1)
    ELSE IntV(SecPerDay)

SourceDoc(i) == [id |-> i, ts |-> SourceTs(i)]

\* queue items: a chunk, or the None that ends a consumer
ChunkItem(docs) == [kind |-> "chunk", docs |-> docs]
Sentinel == [kind |-> "sentinel", docs |-> <<>>]

(***************************************************************************)
(* State.                                                                  *)
(***************************************************************************)
VARIABLES
    config,        \* SdConfig
    srcLen,        \* documents the source stream holds
    srcPos,        \* documents pulled from it so far
    mainPc,        \* where action() is
    ret,           \* what action() returned
    thr,           \* self.gte / self.lte
    es,            \* self.es: "None", or the state of the SdElasticConnect
    stopEvent,     \* self.stopEvent
    chunkQueue,    \* self.chunkQueue, oldest first
    unfinished,    \* chunkQueue.unfinished_tasks
    totalSuccess,  \* self.totalSuccess
    totalFailed,   \* self.totalFailed
    prodPc,        \* where chunkProducer is
    chunk,         \* chunkProducer's chunk
    sentinelsPut,  \* Nones chunkProducer has put
    prodExit,      \* how chunkProducer left its loop
    wPc,           \* where each chunkConsumer is
    wChunk,        \* the chunk each consumer holds
    retryCount,    \* retry_count of each processAndIndexChunk
    wResult,       \* (success, failed) each processAndIndexChunk returned
    wReg,          \* the counter value a consumer loaded for its +=
    \* history, read by the properties only
    produced,      \* chunks put on the queue, in order
    attempts,      \* loop iterations of the current processAndIndexChunk
    bulkOnly,      \* every failure of the current chunk was a bulk failure
    sumSuccess,    \* sum of the success counts returned
    sumFailed,     \* sum of the failed counts returned
    docsMapped,    \* ids of the documents of the chunks handed to processAndIndexChunk
    cancelled,     \* the stop event was set while the producer was reading
    bulkInvoked,   \* es.bulkIndex was called in the last pass over the chunk held
    ensured,       \* what the ensureConnectionES of the current pass found and did
    slept,         \* seconds of the time.sleep before the coming pass
    taken,         \* the chunks taken off the queue, in order, and by whom
    connOnly,      \* no ensureConnectionES of the current chunk has succeeded
    \* the chunk mapper on its own
    mapIn,         \* the chunk handed to processChunk
    mapOut         \* whether it has run, and the actions it returned

vars == <<config, srcLen, srcPos, mainPc, ret, thr, es, stopEvent, chunkQueue,
          unfinished, totalSuccess, totalFailed, prodPc, chunk, sentinelsPut,
          prodExit, wPc, wChunk, retryCount, wResult, wReg, produced, attempts,
          bulkOnly, sumSuccess, sumFailed, docsMapped, cancelled, bulkInvoked,
          ensured, slept, taken, connOnly, mapIn, mapOut>>

mainVars == <<mainPc, ret, thr>>
prodVars == <<srcPos, prodPc, chunk, sentinelsPut, prodExit, produced>>
workVars == <<wPc, wChunk, retryCount, wResult, wReg, attempts, bulkOnly,
              sumSuccess, sumFailed, docsMapped, bulkInvoked, ensured, slept,
                   taken, connOnly>>
queueVars == <<chunkQueue, unfinished>>
counters == <<totalSuccess, totalFailed>>
envVars == <<config, srcLen, mapIn, mapOut>>

\* no ensureConnectionES has run in the pass
NotEnsured == [before |-> "None", connects |-> 0]

\* StreamingSplitDex.__init__: the object before action() is called
Fresh ==
    /\ srcPos = 0
    /\ ret = <<0, 0>>
    /\ thr = [gte |-> NoneV, lte |-> NoneV]
    /\ es = "None"
    /\ stopEvent = FALSE
    /\ chunkQueue = <<>>
    /\ unfinished = 0
    /\ totalSuccess = 0
    /\ totalFailed = 0
    /\ prodPc = "idle"
    /\ chunk = <<>>
    /\ sentinelsPut = 0
    /\ prodExit = "none"
    /\ wPc = [w \in Workers |-> "idle"]
    /\ wChunk = [w \in Workers |-> <<>>]
    /\ retryCount = [w \in Workers |-> 0]
    /\ wResult = [w \in Workers |-> <<0, 0>>]
    /\ wReg = [w \in Workers |-> 0]
    /\ produced = <<>>
    /\ attempts = [w \in Workers |-> 0]
    /\ bulkOnly = [w \in Workers |-> TRUE]
    /\ sumSuccess = 0
    /\ sumFailed = 0
    /\ docsMapped = {}
    /\ cancelled = FALSE
    /\ bulkInvoked = [w \in Workers |-> FALSE]
    /\ ensured = [w \in Workers |-> NotEnsured]
    /\ slept = [w \in Workers |-> 0]
    /\ taken = <<>>
    /\ connOnly = [w \in Workers |-> TRUE]

\* a run of action() over a source stream of srcLen documents
Init ==
    /\ config \in PipelineConfigs
    /\ srcLen \in 0..MaxDocs
    /\ CeilDiv(srcLen, config.batch) <= MaxChunks
    /\ mainPc = "ensure"
    /\ Fresh
    /\ mapIn = <<>>
    /\ mapOut = [done |-> FALSE, actions |-> <<>>]

(***************************************************************************)
(* The connection.                                                         *)
(***************************************************************************)
\* SdElasticConnect.__init__ sets logger, config, connectEs and configEs:
\* hasattr(self.es, '_client') is False
HasClientAttr == FALSE

\* StreamingSplitDex.__init__ names the event stopEvent; chunkProducer's
\* except block sets self.stop_event
HasStopEventAttr == FALSE

\* ensureConnectionES, the whole  with self.connection_lock  block.  `up`: the
\* server answers the pings of this call.  The handle is created when absent
\* and connect() is called; then, the handle having no _client (or its ping
\* failing), connect() is called again.  A connect() whose ping fails raises
\* and leaves the handle in place.
ensureConnectionES(up) == IF up THEN "open" ELSE "failed"

\* connect() calls one ensureConnectionES makes, the handle being e before it:
\* one on the handle it creates, and one more whenever the handle (new or old)
\* has no _client; with a _client and its ping answered, none
connectCalls(e, up) ==
    (IF e = "None" THEN 1 ELSE 0)
    + (IF e = "None" /\ ~up THEN 0 ELSE IF HasClientAttr /\ up THEN 0 ELSE 1)

\* try: self.es._client.transport.close()  except: pass
closeTransport(e) == IF HasClientAttr THEN "closed" ELSE e

(***************************************************************************)
(* The queue: queue.Queue(maxsize=numProcess()).                           *)
(***************************************************************************)
\* a queue one item too large
QueueMaxsizeOneMore == numProcess + 1

QueueMaxsize == numProcess

\* Queue.put blocks while the queue is full
CanPut == Len(chunkQueue) < QueueMaxsize

\* a put at the head of the queue
EnqueueFront(q, item) == <<item>> \o q

\* Queue._put: the deque's append
Enqueue(q, item) == Append(q, item)

\* a get that returns the newest item
FrontNewest(q) == q[Len(q)]

\* Queue._get: the deque's popleft, the item returned ...
Front(q) == Head(q)

\* a get that leaves the item in the queue
DequeuePeek(q) == q

\* ... and the queue it leaves
Dequeue(q) == Tail(q)

Put(item) ==
    /\ CanPut
    /\ chunkQueue' = Enqueue(chunkQueue, item)
    /\ unfinished' = unfinished + 1

(***************************************************************************)
(* action(): the orchestrator.                                             *)
(***************************************************************************)
\* the consumer thread has ended: by the flag or a None, or in its except block
Exited(w) == wPc[w] \in {"exited", "faulted"}

\* a join that does not wait
QueueJoinedAlways == TRUE

\* Queue.join returns once every item put has been acknowledged by task_done
QueueJoined == unfinished = 0

MainEnsure ==
    /\ mainPc = "ensure"
    /\ \E up \in BOOLEAN :
          /\ es' = ensureConnectionES(up)
          /\ mainPc' = IF up THEN "getData" ELSE "except"
    /\ UNCHANGED <<ret, thr, stopEvent, queueVars, counters, prodVars, workVars,
                   envVars, cancelled>>

MainGetData ==
    /\ mainPc = "getData"
    /\ thr' = getDataThresholds(config)
    /\ mainPc' = "start"
    /\ UNCHANGED <<ret, es, stopEvent, queueVars, counters, prodVars, workVars,
                   envVars, cancelled>>

\* the consumers are submitted to the executor and the producer is started
MainStart ==
    /\ mainPc = "start"
    /\ wPc' = [w \in Workers |-> "check"]
    /\ prodPc' = "pull"
    /\ mainPc' = "joinProducer"
    /\ UNCHANGED <<ret, thr, es, stopEvent, queueVars, counters, envVars, cancelled,
                   srcPos, chunk, sentinelsPut, prodExit, produced,
                   wChunk, retryCount, wResult, wReg, attempts, bulkOnly,
                   sumSuccess, sumFailed, docsMapped, bulkInvoked, ensured, slept,
                   taken, connOnly>>

\* producer.join()
MainJoinProducer ==
    /\ mainPc = "joinProducer"
    /\ prodPc = "done"
    /\ mainPc' = "queueJoin"
    /\ UNCHANGED <<ret, thr, es, stopEvent, queueVars, counters, prodVars, workVars,
                   envVars, cancelled>>

\* self.chunkQueue.join()
MainQueueJoin ==
    /\ mainPc = "queueJoin"
    /\ QueueJoined
    /\ mainPc' = "results"
    /\ UNCHANGED <<ret, thr, es, stopEvent, queueVars, counters, prodVars, workVars,
                   envVars, cancelled>>

\* future.result() of every consumer, the executor's exit, and the return
MainReturn ==
    /\ mainPc = "results"
    /\ \A w \in Workers : Exited(w)
    /\ ret' = <<totalSuccess, totalFailed>>
    /\ mainPc' = "finallyReturn"
    /\ UNCHANGED <<thr, es, stopEvent, queueVars, counters, prodVars, workVars,
                   envVars, cancelled>>

MainExcept ==
    /\ mainPc = "except"
    /\ stopEvent' = TRUE
    /\ mainPc' = "finallyRaise"
    /\ UNCHANGED <<ret, thr, es, queueVars, counters, prodVars, workVars,
                   envVars, cancelled>>

\* the finally block: the close of the transport, under the lock
MainFinally ==
    /\ mainPc \in {"finallyReturn", "finallyRaise"}
    /\ es' = IF es # "None" THEN closeTransport(es) ELSE es
    /\ mainPc' = IF mainPc = "finallyReturn" THEN "returned" ELSE "raised"
    /\ UNCHANGED <<ret, thr, stopEvent, queueVars, counters, prodVars, workVars,
                   envVars, cancelled>>

Main ==
    \/ MainEnsure \/ MainGetData \/ MainStart \/ MainJoinProducer
    \/ MainQueueJoin \/ MainReturn \/ MainExcept \/ MainFinally

(***************************************************************************)
(* chunkProducer.                                                          *)
(***************************************************************************)
\* the batch test with > for >=
BatchFullStrict(c) == Len(c) > config.batch

\* len(chunk) >= self.config.BATCH_SIZE
BatchFull(c) == Len(c) >= config.batch

\* one sentinel too few
SentinelCountOneLess == numProcess - 1

\* for _ in range(numProcess()): self.chunkQueue.put(None)
SentinelCount == numProcess

\* a final put that does not look at the stop event
FlushFinalIgnoringStop == chunk # <<>>

\* if chunk and not self.stopEvent.is_set()
FlushFinal == chunk # <<>> /\ ~stopEvent

\* for item in data: the next document is pulled, then the stop event is
\* read; set, the loop is left by break for the test before the final put
ProdPull ==
    /\ prodPc = "pull"
    /\ srcPos < srcLen
    /\ srcPos' = srcPos + 1
    /\ IF stopEvent
       THEN /\ prodPc' = IF FlushFinal THEN "putFinal" ELSE "finally"
            /\ prodExit' = "stopped"
            /\ UNCHANGED chunk
       ELSE /\ chunk' = Append(chunk, SourceDoc(srcPos + 1))
            /\ prodPc' = IF BatchFull(chunk') THEN "put" ELSE "pull"
            /\ UNCHANGED prodExit
    /\ UNCHANGED <<sentinelsPut, produced, mainVars, es, stopEvent, queueVars,
                   counters, workVars, envVars, cancelled>>

\* self.chunkQueue.put(chunk); chunk = []
ProdPut ==
    /\ prodPc = "put"
    /\ Put(ChunkItem(chunk))
    /\ produced' = Append(produced, chunk)
    /\ chunk' = <<>>
    /\ prodPc' = "pull"
    /\ UNCHANGED <<srcPos, sentinelsPut, prodExit, mainVars, es, stopEvent,
                   counters, workVars, envVars, cancelled>>

\* the stream is exhausted: the loop ends, the rest is flushed or not
ProdExhausted ==
    /\ prodPc = "pull"
    /\ srcPos = srcLen
    /\ prodExit' = "exhausted"
    /\ prodPc' = IF FlushFinal THEN "putFinal" ELSE "finally"
    /\ UNCHANGED <<srcPos, chunk, sentinelsPut, produced, mainVars, es, stopEvent,
                   queueVars, counters, workVars, envVars, cancelled>>

\* the put of the final chunk
ProdPutFinal ==
    /\ prodPc = "putFinal"
    /\ Put(ChunkItem(chunk))
    /\ produced' = Append(produced, chunk)
    /\ prodPc' = "finally"
    /\ UNCHANGED <<srcPos, chunk, sentinelsPut, prodExit, mainVars, es, stopEvent,
                   counters, workVars, envVars, cancelled>>

\* reading the source raises (the scan's next page fails)
ProdSourceError ==
    /\ prodPc = "pull"
    /\ prodExit' = "error"
    /\ prodPc' = "except"
    /\ UNCHANGED <<srcPos, chunk, sentinelsPut, produced, mainVars, es, stopEvent,
                   queueVars, counters, workVars, envVars, cancelled>>

\* except Exception: self.stop_event.set() -- an AttributeError, which leaves
\* the handler for the finally block (and ends the thread after it)
ProdExcept ==
    /\ prodPc = "except"
    /\ stopEvent' = IF HasStopEventAttr THEN TRUE ELSE stopEvent
    /\ prodPc' = "finally"
    /\ UNCHANGED <<srcPos, chunk, sentinelsPut, prodExit, produced, mainVars, es,
                   queueVars, counters, workVars, envVars, cancelled>>

\* finally: one put of None per consumer, each blocking while the queue is full
ProdSentinel ==
    /\ prodPc = "finally"
    /\ sentinelsPut < SentinelCount
    /\ Put(Sentinel)
    /\ sentinelsPut' = sentinelsPut + 1
    /\ prodPc' = IF sentinelsPut' = SentinelCount THEN "done" ELSE "finally"
    /\ UNCHANGED <<srcPos, chunk, prodExit, produced, mainVars, es, stopEvent,
                   counters, workVars, envVars, cancelled>>

Producer ==
    \/ ProdPull \/ ProdPut \/ ProdExhausted \/ ProdPutFinal
    \/ ProdSourceError \/ ProdExcept \/ ProdSentinel

(***************************************************************************)
(* chunkConsumer and processAndIndexChunk.                                 *)
(***************************************************************************)
\* retry_count = 0, the statement after self.ensureConnectionES()
RetryCountAfterEnsure(rc) == 0

\* a loop that ends with nothing counted
ExhaustedResultNothing(c) == <<0, 0>>

\* return 0, len(chunk), after the retry loop
ExhaustedResult(c) == <<0, Len(c)>>

\* success, failed = 0, 0 : what is returned when processChunk gave no action
NoActionResult(c) == <<0, 0>>

\* what es.bulkIndex can return for `n` actions: bulk(..., stats_only=True)
BulkResults(n) == {<<n - f, f>> : f \in 0..Min(n, MaxBulkFailed)}

\* an except block that leaves the handle where it is
dropHandleKept(e) == e

\* self.es = None, in the except block, under the connection lock (the block
\* is one step: no other holder of the lock runs inside it)
dropHandle(e) == "None"

\* time.sleep(2 ** retry_count)
backoff(rc) == 2 ^ rc

DocIds(c) == {c[i].id : i \in 1..Len(c)}

Inc(n) == Min(n + 1, AttemptCap)

\* processAndIndexChunk returns r to chunkConsumer
Return(w, r) ==
    /\ wResult' = [wResult EXCEPT ![w] = r]
    /\ sumSuccess' = sumSuccess + r[1]
    /\ sumFailed' = sumFailed + r[2]
    /\ retryCount' = [retryCount EXCEPT ![w] = 0]
    /\ attempts' = [attempts EXCEPT ![w] = 0]
    /\ bulkOnly' = [bulkOnly EXCEPT ![w] = TRUE]
    /\ wPc' = [wPc EXCEPT ![w] = "loadSuccess"]

\* while not self.stopEvent.is_set()
WorkerCheck(w) ==
    /\ wPc[w] = "check"
    /\ wPc' = [wPc EXCEPT ![w] = IF stopEvent THEN "exited" ELSE "get"]
    /\ UNCHANGED <<mainVars, es, stopEvent, queueVars, counters, prodVars, envVars,
                   cancelled, wChunk, retryCount, wResult, wReg, attempts, bulkOnly,
                   sumSuccess, sumFailed, docsMapped, bulkInvoked, ensured, slept,
                   taken, connOnly>>

\* chunk = self.chunkQueue.get(); a None is acknowledged and ends the loop
WorkerGet(w) ==
    /\ wPc[w] = "get"
    /\ chunkQueue # <<>>
    /\ chunkQueue' = Dequeue(chunkQueue)
    /\ IF Front(chunkQueue).kind = "sentinel"
       THEN /\ unfinished' = unfinished - 1
            /\ wPc' = [wPc EXCEPT ![w] = "exited"]
            /\ UNCHANGED <<wChunk, retryCount, attempts, bulkOnly, docsMapped, taken>>
       ELSE /\ wChunk' = [wChunk EXCEPT ![w] = Front(chunkQueue).docs]
            /\ taken' = Append(taken, [w |-> w, docs |-> Front(chunkQueue).docs])
            /\ docsMapped' = docsMapped \cup DocIds(Front(chunkQueue).docs)
            /\ retryCount' = [retryCount EXCEPT ![w] = 0]
            /\ attempts' = [attempts EXCEPT ![w] = 0]
            /\ bulkOnly' = [bulkOnly EXCEPT ![w] = TRUE]
            /\ wPc' = [wPc EXCEPT ![w] = "ensure"]
            /\ UNCHANGED unfinished
    /\ UNCHANGED <<mainVars, es, stopEvent, counters, prodVars, envVars, cancelled,
                   wResult, wReg, sumSuccess, sumFailed, bulkInvoked, ensured, slept,
                   connOnly>>

\* one pass of the retry loop begins (any sleep before it is over):
\* self.ensureConnectionES(); retry_count = 0
WorkerEnsure(w) ==
    /\ wPc[w] = "ensure"
    /\ attempts' = [attempts EXCEPT ![w] = Inc(attempts[w])]
    /\ slept' = [slept EXCEPT ![w] = 0]
    /\ bulkInvoked' = [bulkInvoked EXCEPT ![w] = FALSE]
    /\ \E up \in BOOLEAN :
          /\ es' = ensureConnectionES(up)
          /\ ensured' = [ensured EXCEPT
                           ![w] = [before |-> es, connects |-> connectCalls(es, up)]]
          /\ IF up
             THEN /\ retryCount' = [retryCount EXCEPT
                                      ![w] = RetryCountAfterEnsure(retryCount[w])]
                  /\ connOnly' = [connOnly EXCEPT ![w] = FALSE]
                  /\ wPc' = [wPc EXCEPT ![w] = "bulk"]
                  /\ UNCHANGED bulkOnly
             ELSE /\ bulkOnly' = [bulkOnly EXCEPT ![w] = FALSE]
                  /\ wPc' = [wPc EXCEPT ![w] = "fail"]
                  /\ UNCHANGED <<retryCount, connOnly>>
    /\ UNCHANGED <<mainVars, stopEvent, queueVars, counters, prodVars, envVars,
                   cancelled, wChunk, wResult, wReg, sumSuccess, sumFailed,
                   docsMapped, taken>>

\* actions = self.processChunk(chunk); if actions: self.es.bulkIndex(...);
\* return success, failed
WorkerBulk(w) ==
    /\ wPc[w] = "bulk"
    /\ ensured' = [ensured EXCEPT ![w] = NotEnsured]
    /\ LET actions == processChunk(wChunk[w], config, thr)
       IN  IF actions = <<>>
           THEN /\ Return(w, NoActionResult(wChunk[w]))
                /\ UNCHANGED bulkInvoked
           ELSE IF es = "None"
           THEN \* another consumer dropped the handle: self.es.bulkIndex raises
                /\ wPc' = [wPc EXCEPT ![w] = "fail"]
                /\ bulkOnly' = [bulkOnly EXCEPT ![w] = FALSE]
                /\ UNCHANGED <<wResult, sumSuccess, sumFailed, retryCount,
                               attempts, bulkInvoked>>
           ELSE /\ bulkInvoked' = [bulkInvoked EXCEPT ![w] = TRUE]
                /\ \/ \E r \in BulkResults(Len(actions)) : Return(w, r)
                   \/ \* bulkIndex raises
                      /\ wPc' = [wPc EXCEPT ![w] = "fail"]
                      /\ UNCHANGED <<wResult, sumSuccess, sumFailed, retryCount,
                                     attempts, bulkOnly>>
    /\ UNCHANGED <<mainVars, es, stopEvent, queueVars, counters, prodVars, envVars,
                   cancelled, wReg, docsMapped, wChunk, slept,
                   taken, connOnly>>

\* except Exception: retry_count += 1; the handle is dropped under the lock;
\* sleep and go round again, or leave the loop and return 0, len(chunk)
WorkerFail(w) ==
    /\ wPc[w] = "fail"
    /\ es' = dropHandle(es)
    /\ ensured' = [ensured EXCEPT ![w] = NotEnsured]
    /\ IF retryCount[w] + 1 < config.maxRetries
       THEN /\ retryCount' = [retryCount EXCEPT ![w] = retryCount[w] + 1]
            /\ slept' = [slept EXCEPT ![w] = backoff(retryCount[w] + 1)]
            /\ wPc' = [wPc EXCEPT ![w] = "ensure"]
            /\ UNCHANGED <<wResult, sumSuccess, sumFailed, attempts, bulkOnly>>
       ELSE /\ Return(w, ExhaustedResult(wChunk[w]))
            /\ UNCHANGED slept
    /\ UNCHANGED <<mainVars, stopEvent, queueVars, counters, prodVars, envVars,
                   cancelled, wReg, docsMapped, wChunk, bulkInvoked, taken,
                   connOnly>>

\* self.totalSuccess += success: the load ...
WorkerLoadSuccess(w) ==
    /\ wPc[w] = "loadSuccess"
    /\ wReg' = [wReg EXCEPT ![w] = totalSuccess]
    /\ wPc' = [wPc EXCEPT ![w] = "storeSuccess"]
    /\ UNCHANGED <<mainVars, es, stopEvent, queueVars, counters, prodVars, envVars,
                   cancelled, wChunk, retryCount, wResult, attempts, bulkOnly,
                   sumSuccess, sumFailed, docsMapped, bulkInvoked, ensured, slept,
                   taken, connOnly>>

\* ... and the store
WorkerStoreSuccess(w) ==
    /\ wPc[w] = "storeSuccess"
    /\ totalSuccess' = wReg[w] + wResult[w][1]
    /\ wReg' = [wReg EXCEPT ![w] = 0]
    /\ wPc' = [wPc EXCEPT ![w] = "loadFailed"]
    /\ UNCHANGED <<mainVars, es, stopEvent, queueVars, totalFailed, prodVars,
                   envVars, cancelled, wChunk, retryCount, wResult, attempts,
                   bulkOnly, sumSuccess, sumFailed, docsMapped, bulkInvoked, ensured,
                   slept,
                   taken, connOnly>>

\* self.totalFailed += failed: the load ...
WorkerLoadFailed(w) ==
    /\ wPc[w] = "loadFailed"
    /\ wReg' = [wReg EXCEPT ![w] = totalFailed]
    /\ wPc' = [wPc EXCEPT ![w] = "storeFailed"]
    /\ UNCHANGED <<mainVars, es, stopEvent, queueVars, counters, prodVars, envVars,
                   cancelled, wChunk, retryCount, wResult, attempts, bulkOnly,
                   sumSuccess, sumFailed, docsMapped, bulkInvoked, ensured, slept,
                   taken, connOnly>>

\* ... and the store
WorkerStoreFailed(w) ==
    /\ wPc[w] = "storeFailed"
    /\ totalFailed' = wReg[w] + wResult[w][2]
    /\ wReg' = [wReg EXCEPT ![w] = 0]
    /\ wPc' = [wPc EXCEPT ![w] = "ack"]
    /\ UNCHANGED <<mainVars, es, stopEvent, queueVars, totalSuccess, prodVars,
                   envVars, cancelled, wChunk, retryCount, wResult, attempts,
                   bulkOnly, sumSuccess, sumFailed, docsMapped, bulkInvoked, ensured,
                   slept,
                   taken, connOnly>>

\* self.chunkQueue.task_done(); del chunk; round the while loop again
WorkerAck(w) ==
    /\ wPc[w] = "ack"
    /\ unfinished' = unfinished - 1
    /\ wResult' = [wResult EXCEPT ![w] = <<0, 0>>]
    /\ wChunk' = [wChunk EXCEPT ![w] = <<>>]
    /\ bulkInvoked' = [bulkInvoked EXCEPT ![w] = FALSE]
    /\ connOnly' = [connOnly EXCEPT ![w] = TRUE]
    /\ wPc' = [wPc EXCEPT ![w] = "check"]
    /\ UNCHANGED <<mainVars, es, stopEvent, chunkQueue, counters, prodVars, envVars,
                   cancelled, retryCount, wReg, attempts, sumSuccess, sumFailed,
                   bulkOnly, docsMapped, ensured, slept, taken>>

\* a statement of chunkConsumer's try block after processAndIndexChunk has
\* returned raises: except Exception: self.stopEvent.set(); break -- the
\* chunk taken is never acknowledged with task_done()
WorkerFault(w) ==
    /\ wPc[w] = "loadSuccess"
    /\ stopEvent' = TRUE
    /\ wResult' = [wResult EXCEPT ![w] = <<0, 0>>]
    /\ wChunk' = [wChunk EXCEPT ![w] = <<>>]
    /\ bulkInvoked' = [bulkInvoked EXCEPT ![w] = FALSE]
    /\ connOnly' = [connOnly EXCEPT ![w] = TRUE]
    /\ wPc' = [wPc EXCEPT ![w] = "faulted"]
    /\ UNCHANGED <<mainVars, es, queueVars, counters, prodVars, envVars,
                   cancelled, retryCount, wReg, attempts, sumSuccess, sumFailed,
                   bulkOnly, docsMapped, ensured, slept, taken>>

Worker(w) ==
    \/ WorkerCheck(w) \/ WorkerGet(w) \/ WorkerEnsure(w) \/ WorkerBulk(w)
    \/ WorkerFail(w) \/ WorkerLoadSuccess(w) \/ WorkerStoreSuccess(w)
    \/ WorkerLoadFailed(w) \/ WorkerStoreFailed(w) \/ WorkerAck(w)
    \/ WorkerFault(w)

(***************************************************************************)
(* Cancellation from outside: the shared stop event is set while the       *)
(* producer is still in its read loop.                                     *)
(***************************************************************************)
Cancel ==
    /\ ~stopEvent
    /\ prodPc \in {"pull", "put"}
    /\ stopEvent' = TRUE
    /\ cancelled' = TRUE
    /\ UNCHANGED <<mainVars, es, queueVars, counters, prodVars, workVars, envVars>>

(***************************************************************************)
(* Specifications.                                                         *)
(***************************************************************************)
Threads == Main \/ Producer \/ \E w \in Workers : Worker(w)

Next == Threads \/ Cancel

Spec == Init /\ [][Next]_vars

\* every thread that can take a step eventually takes one
Fairness ==
    /\ WF_vars(Main)
    /\ WF_vars(Producer)
    /\ \A w \in Workers : WF_vars(Worker(w))

\* runs nobody cancels, under a fair scheduler
FairSpec == Init /\ [][Threads]_vars /\ Fairness

(***************************************************************************)
(* The chunk mapper on its own: getData() leaves the thresholds, then      *)
(* processChunk maps one chunk, under every configuration.                 *)
(***************************************************************************)
MapConfigs == {c \in Configs : c.batch = 1 /\ c.maxRetries = 1}

\* timestamp fields: absent, a date string, and epoch seconds / millis at,
\* just before and just after the start of a day
MapTs ==
    {NoneV, StrV(1)}
    \cup {IntV(d * SecPerDay + o) : d \in 1..MaxDay, o \in {-1, 0, 1}}
    \cup {IntV(d * SecPerDay * 1000 + o) : d \in 1..MaxDay, o \in {-1, 0, 1}}

MapChunks ==
    UNION {{[i \in 1..n |-> [id |-> i, ts |-> t[i]]] : t \in [1..n -> MapTs]}
              : n \in 0..MaxMapLen}

MapInit ==
    /\ config \in MapConfigs
    /\ srcLen = 0
    /\ mainPc = "getData"
    /\ Fresh
    /\ mapIn \in MapChunks
    /\ mapOut = [done |-> FALSE, actions |-> <<>>]

MapProcessChunk ==
    /\ mainPc = "start"
    /\ ~mapOut.done
    /\ mapOut' = [done |-> TRUE, actions |-> processChunk(mapIn, config, thr)]
    /\ UNCHANGED <<config, srcLen, mapIn, mainVars, es, stopEvent, queueVars,
                   counters, prodVars, workVars, cancelled>>

MapNext == MainGetData \/ MapProcessChunk

MapSpec == MapInit /\ [][MapNext]_vars

(***************************************************************************)
(* Properties.                                                             *)
(***************************************************************************)
\* action() has returned its totals or raised
Finished == mainPc \in {"returned", "raised"}

\* C1: every run of action() terminates: whatever the connection and the bulk
\* writes do and however the producer ends, action() eventually returns or
\* raises.
C1_RunTerminates == <>Finished

\* C2: in a run that returns its totals, totalSuccess + totalFailed is the
\* number of documents in the chunks the consumers took off the queue and
\* handed on to be mapped and written.
C2_TotalsCountMappedDocuments ==
    mainPc = "returned" => ret[1] + ret[2] = Cardinality(docsMapped)

\* sentinels in the queue, and sentinels the consumers have taken off it
SentinelsQueued ==
    Cardinality({i \in 1..Len(chunkQueue) : chunkQueue[i].kind = "sentinel"})
SentinelsTaken == sentinelsPut - SentinelsQueued

\* C3: once the stop event has been set while the producer was reading, the
\* run does not hang (some thread can always take a step until action() has
\* finished), and when it has finished numProcess() sentinels have been put
\* and taken.
C3_CancelledRunCompletes ==
    cancelled =>
        /\ Finished \/ ENABLED Next
        /\ Finished => sentinelsPut = numProcess /\ SentinelsTaken = numProcess

\* C4: a chunk whose every attempt so far failed in the bulk write (the
\* connection having been established) is given at most maxRetries attempts.
C4_BulkFailuresExhaustRetries ==
    \A w \in Workers :
        (wPc[w] \in {"ensure", "bulk", "fail"} /\ bulkOnly[w])
            => attempts[w] <= config.maxRetries

\* the chunks of a stream of m documents cut at batch size b
ExpectedChunks(m, b) ==
    [k \in 1..CeilDiv(m, b) |->
        [j \in 1..(IF k < CeilDiv(m, b) THEN b ELSE m - (k - 1) * b) |->
            SourceDoc((k - 1) * b + j)]]

\* the size of the last chunk: M mod B, or B when M is a multiple of B
LastChunkSize(m, b) == IF m % b = 0 THEN b ELSE m % b

\* the producer has left its loop on exhaustion and nobody has set the event
ProducedAll ==
    prodPc \in {"finally", "done"} /\ prodExit = "exhausted" /\ ~stopEvent

\* C5: without cancellation and source error the producer enqueues
\* ceil(M/B) chunks holding the documents in source order, each of size B but
\* the last, which has size M mod B (or B).
C5_ChunkingCorrect ==
    ProducedAll =>
        /\ Len(produced) = CeilDiv(srcLen, config.batch)
        /\ produced = ExpectedChunks(srcLen, config.batch)
        /\ \A k \in 1..Len(produced) :
              Len(produced[k]) = IF k < Len(produced) THEN config.batch
                                 ELSE LastChunkSize(srcLen, config.batch)

\* a stream of three documents cut at two: a full chunk and a partial one
C5_Witness ==
    ProducedAll /\ prodPc = "done" /\ srcLen = 3 /\ config.batch = 2

\* the bound a configured date stands for in the time representation of the
\* documents: the date itself, or its epoch seconds or milliseconds
WindowBound(c, bound) ==
    IF c.isoFormat = "epoch_second" THEN dateToEpoch(bound, FALSE)
    ELSE IF c.isoFormat = "epoch_millis" THEN dateToEpoch(bound, TRUE)
    ELSE bound

\* the document's timestamp lies outside the configured [gte, lte]
OutsideWindow(doc, c) ==
    \/ /\ Truthy(c.gte)
       /\ doc.ts.k = WindowBound(c, c.gte).k
       /\ doc.ts.v < WindowBound(c, c.gte).v
    \/ /\ Truthy(c.lte)
       /\ doc.ts.k = WindowBound(c, c.lte).k
       /\ doc.ts.v > WindowBound(c, c.lte).v

\* C6: in range mode the action list of a chunk has no entry for a document
\* whose timestamp lies outside the configured window.
C6_OutsideWindowYieldsNoAction ==
    (mapOut.done /\ config.usedQuery = "yes") =>
        \A i \in 1..Len(mapIn) :
            OutsideWindow(mapIn[i], config) =>
                \A j \in 1..Len(mapOut.actions) : mapOut.actions[j].src # mapIn[i].id

\* C7: once action() has finished, by return or by raise, the connection is
\* not left open.
C7_ConnectionReleasedOnExit == Finished => es # "open"

\* C8: the queue never holds more than numProcess() items, and a producer
\* that has an item to put while the queue holds numProcess() items cannot
\* take a step.
C8_QueueBounded ==
    /\ Len(chunkQueue) <= numProcess
    /\ (prodPc \in {"put", "putFinal", "finally"} /\ Len(chunkQueue) >= numProcess)
          => ~ENABLED Producer

\* the queue is full of chunks and the producer waits to put its first sentinel
C8_Witness ==
    /\ Len(chunkQueue) = numProcess
    /\ prodPc = "finally"
    /\ sentinelsPut = 0
    /\ ~ENABLED Producer

\* C9: the producer never puts more than numProcess() sentinels, and when it
\* has finished, however it left its loop, it has put exactly that many.
C9_SentinelsExact ==
    /\ sentinelsPut <= numProcess
    /\ prodPc = "done" => sentinelsPut = numProcess

\* the producer has finished after a source error
C9_Witness == prodPc = "done" /\ prodExit = "error" /\ sentinelsPut = numProcess

\* C10: the totals action() returns are the sums of the per-chunk counts that
\* processAndIndexChunk returned: no consumer's addition is lost.
C10_CountersAtomic ==
    mainPc = "returned" => ret[1] = sumSuccess /\ ret[2] = sumFailed

\* the consumer holds a chunk that processAndIndexChunk has returned from
Returned(w) == wPc[w] \in {"loadSuccess", "storeSuccess", "loadFailed", "storeFailed", "ack"}

\* C11: a chunk whose mapping gives no action is reported as (0, len(chunk)),
\* and es.bulkIndex is not called for it.
C11_NoActionsReportedFailed ==
    \A w \in Workers :
        (Returned(w) /\ processChunk(wChunk[w], config, thr) = <<>>)
            => /\ wResult[w] = <<0, Len(wChunk[w])>>
               /\ ~bulkInvoked[w]

\* C12: an ensureConnectionES that returns makes exactly one connect() call
\* when it found no handle, and none when it found an open connection whose
\* server answers.
C12_EnsureConnectionIdempotent ==
    \A w \in Workers :
        wPc[w] = "bulk" =>
            /\ ensured[w].before = "None" => ensured[w].connects = 1
            /\ ensured[w].before = "open" => ensured[w].connects = 0

\* C13: the k-th failed attempt on a chunk is followed by another attempt only
\* when k < maxRetries, and the sleep before that attempt is 2^k.
C13_BackoffDelays ==
    \A w \in Workers :
        (wPc[w] = "ensure" /\ attempts[w] >= 1) =>
            /\ attempts[w] < config.maxRetries
            /\ slept[w] = 2 ^ attempts[w]

\* C14: a producer that has finished after an error reading the source has
\* left the stop event set.
C14_SourceErrorSetsFlag ==
    (prodPc = "done" /\ prodExit = "error") => stopEvent

\* C15: no step taken while the stop event is set pulls a document from the
\* source.
C15_NoPullAfterStop == [][stopEvent => srcPos' = srcPos]_vars

\* the documents of the chunks put on the queue so far
Enqueued == UNION {DocIds(produced[k]) : k \in 1..Len(produced)}

\* C16: a producer that left its read loop on seeing the stop event never
\* puts its partial chunk: it goes to the sentinels with the chunk in hand,
\* and none of the chunk's documents is among those enqueued.
C16_PartialChunkDiscarded ==
    prodExit = "stopped" =>
        /\ prodPc \in {"finally", "done"}
        /\ DocIds(chunk) \cap Enqueued = {}
        /\ \A k \in 1..Len(produced) : Len(produced[k]) = config.batch

\* the producer has finished after a stop that found it with a partial chunk
C16_Witness == prodExit = "stopped" /\ prodPc = "done" /\ chunk # <<>>

\* C17: the step that handles a failed attempt leaves self.es None, and a
\* consumer comes to map and write only by a step in which its
\* ensureConnectionES made a connect() call and left the connection open.
C17_FailureDropsHandleThenReconnects ==
    [][\A w \in Workers :
          /\ (wPc[w] = "fail" /\ wPc'[w] # "fail") => es' = "None"
          /\ (wPc[w] # "bulk" /\ wPc'[w] = "bulk") =>
                /\ wPc[w] = "ensure"
                /\ ensured'[w].connects >= 1
                /\ es' = "open"]_vars

\* a consumer on its second pass over a chunk, having found the handle
\* dropped and connected again
C17_Witness ==
    \E w \in Workers :
        wPc[w] = "bulk" /\ attempts[w] >= 2 /\ ensured[w].before = "None"

\* C18: when action() has its totals to return the producer has finished,
\* every item put on the queue has been taken and acknowledged, every
\* consumer has ended, and the counters stay what was returned.
C18_ReturnAfterEverythingDone ==
    mainPc \in {"finallyReturn", "returned"} =>
        /\ prodPc = "done"
        /\ unfinished = 0 /\ chunkQueue = <<>>
        /\ \A w \in Workers : Exited(w)
        /\ ret = <<totalSuccess, totalFailed>>

\* action() has returned the totals of a run of two chunks
C18_Witness ==
    mainPc = "returned" /\ Len(produced) = 2 /\ ret[1] + ret[2] > 0

\* C19: a consumer that ended in its except block has set the stop event,
\* and from then on every consumer eventually ends.
C19_FaultedWorkerSiblingsExit ==
    /\ [](\A w \in Workers : wPc[w] = "faulted" => stopEvent)
    /\ \A w \in Workers :
          (wPc[w] = "faulted") ~> (\A v \in Workers : Exited(v))

\* a document the re-validation can compare: a number against the numbers the
\* supplied bounds became
Comparable(doc, c, t) ==
    /\ doc.ts.k = "int"
    /\ Truthy(c.gte) => t.gte.k = "int"
    /\ Truthy(c.lte) => t.lte.k = "int"

\* the document is within every bound that was supplied
WithinSupplied(doc, c, t) ==
    /\ Truthy(c.gte) => doc.ts.v >= t.gte.v
    /\ Truthy(c.lte) => doc.ts.v <= t.lte.v

\* the document passed: the chunk's actions hold its mapping
Passed(doc, actions) ==
    \E j \in 1..Len(actions) :
        actions[j].src = doc.id /\ actions[j]._id = doc.id /\ actions[j]._source = doc.ts

\* C20: in range mode a document passes the re-validation exactly when it is
\* within every bound that was supplied; with no bound supplied every
\* document passes.
C20_OnlySuppliedBoundsChecked ==
    (mapOut.done /\ config.usedQuery = "yes") =>
        \A i \in 1..Len(mapIn) :
            Comparable(mapIn[i], config, thr) =>
                (Passed(mapIn[i], mapOut.actions) <=> WithinSupplied(mapIn[i], config, thr))

\* positions of the chunk's documents whose mappingData does not raise
MappedOk(ch, c, t) == {i \in 1..Len(ch) : mappingData(ch[i], c, t).k # "raise"}

\* C21: the actions of a chunk are one per document whose mapping does not
\* raise, in chunk order, each the action that document gives on its own.
C21_MapperSkipsOnlyFailingDocuments ==
    mapOut.done =>
        LET ok == MappedOk(mapIn, config, thr)
            actions == mapOut.actions
        IN  /\ Len(actions) = Cardinality(ok)
            /\ \A j \in 1..Len(actions) :
                  /\ actions[j].src \in ok
                  /\ <<actions[j]>> = actionOf(mapIn[actions[j].src], config, thr)
            /\ \A j, k \in 1..Len(actions) : j < k => actions[j].src < actions[k].src

\* a chunk of two whose first document has no timestamp: one action, the second's
C21_Witness ==
    /\ mapOut.done
    /\ Len(mapIn) = 2
    /\ mapIn[1].ts = NoneV
    /\ Len(mapOut.actions) = 1
    /\ mapOut.actions[1].src = 2
    /\ mapOut.actions[1]._id = 2

\* the consumer holds an item it has taken and not yet acknowledged
Holding(w) ==
    wPc[w] \in {"ensure", "bulk", "fail", "loadSuccess", "storeSuccess",
                "loadFailed", "storeFailed", "ack"}

\* C22: no chunk is taken off the queue twice, every chunk taken is one the
\* producer put, a consumer takes a chunk only when it holds none, and when
\* action() has returned every chunk put has been taken once and is no longer
\* held by anyone.
C22_ChunkConsumedOnce ==
    /\ [](/\ \A j, k \in 1..Len(taken) : j # k => taken[j].docs # taken[k].docs
          /\ \A k \in 1..Len(taken) :
                \E i \in 1..Len(produced) : produced[i] = taken[k].docs
          /\ mainPc = "returned" =>
                /\ \A i \in 1..Len(produced) :
                      Cardinality({k \in 1..Len(taken) : taken[k].docs = produced[i]}) = 1
                /\ \A w \in Workers : ~Holding(w) /\ wChunk[w] = <<>>)
    /\ [][\A w \in Workers :
             (wChunk'[w] # wChunk[w] /\ wChunk'[w] # <<>>)
                 => (wChunk[w] = <<>> /\ wPc[w] = "get")]_vars

\* action() has returned after two chunks went to two consumers
C22_Witness ==
    mainPc = "returned" /\ Len(taken) = 2 /\ taken[1].w # taken[2].w

\* C23: the chunks are taken off the queue in the order they were put: the
\* chunks taken so far are the first of those put, in the same order.
C23_ChunksDequeuedInOrder ==
    /\ Len(taken) <= Len(produced)
    /\ \A k \in 1..Len(taken) : taken[k].docs = produced[k]

\* both chunks of the run have been taken and are being processed
C23_Witness ==
    Len(taken) = 2 /\ \A w \in Workers : wPc[w] \in {"ensure", "bulk", "fail"}

\* C24: while no ensureConnectionES of a chunk has succeeded the attempts
\* stay within maxRetries; a failed attempt short of maxRetries is followed
\* by another with nothing counted, and the failure of attempt maxRetries
\* ends the processing with (0, len(chunk)) returned and counted.
C24_ConnectionFailuresExhaustRetries ==
    /\ [](\A w \in Workers :
            (connOnly[w] /\ wPc[w] \in {"ensure", "fail"})
                => attempts[w] <= config.maxRetries)
    /\ [][\A w \in Workers :
            (connOnly[w] /\ wPc[w] = "fail" /\ wPc'[w] # "fail") =>
                IF attempts[w] < config.maxRetries
                THEN /\ wPc'[w] = "ensure"
                     /\ sumSuccess' = sumSuccess /\ sumFailed' = sumFailed
                ELSE /\ attempts[w] = config.maxRetries
                     /\ wPc'[w] = "loadSuccess"
                     /\ wResult'[w] = <<0, Len(wChunk[w])>>
                     /\ sumSuccess' = sumSuccess
                     /\ sumFailed' = sumFailed + Len(wChunk[w])]_vars

\* a chunk given up after two attempts that both failed to connect
C24_Witness ==
    \E w \in Workers :
        /\ Returned(w) /\ connOnly[w]
        /\ config.maxRetries = 2
        /\ wChunk[w] # <<>> /\ wResult[w] = <<0, Len(wChunk[w])>>

\* C25: a consumer that has come through ensureConnectionES and has actions
\* to write finds the connection handle still there.
C25_HandlePresentAtWrite ==
    \A w \in Workers :
        (wPc[w] = "bulk" /\ processChunk(wChunk[w], config, thr) # <<>>)
            => es # "None"

\* items taken off the queue, and task_done() calls, so far
Dequeues == sentinelsPut + Len(produced) - Len(chunkQueue)
Acks == sentinelsPut + Len(produced) - unfinished

\* C26: the acknowledgements never exceed the items taken, and every item
\* taken has been acknowledged but those the running consumers still hold:
\* a consumer that has ended has acknowledged all it took.
C26_EveryDequeueAcknowledged ==
    /\ Acks <= Dequeues
    /\ Dequeues - Acks = Cardinality({w \in Workers : Holding(w)})

\* C27: no chunk in the queue is behind a sentinel, and once a sentinel has
\* been put the producer is past its last put of a chunk.
C27_NoChunkAfterSentinel ==
    /\ \A i, j \in 1..Len(chunkQueue) :
          (i < j /\ chunkQueue[i].kind = "sentinel") => chunkQueue[j].kind = "sentinel"
    /\ sentinelsPut > 0 => prodPc \in {"finally", "done"}

\* the queue holds a chunk with a sentinel behind it
C27_Witness ==
    /\ Len(chunkQueue) = 2
    /\ chunkQueue[1].kind = "chunk"
    /\ chunkQueue[2].kind = "sentinel"

====
